---- MODULE Spec2Model ----
(***************************************************************************)
(* Model of the math-game progression engine (MathGame component), its     *)
(* periodic clock, its answer handler and its start / restart / back-home  *)
(* handlers.                                                               *)
(*                                                                         *)
(* Encoding of JavaScript values:                                          *)
(*   null (userAnswer, isCorrect, answeredAt, gameStartTime, gameEndTime)  *)
(*     is the empty sequence <<>> and a present value v is <<v>>;          *)
(*   canAnswerQuestionId and countdownRef use 0 for null: both are only    *)
(*     tested for truthiness and every id is >= 1;                         *)
(*   Date values are the millisecond clock `now`;                          *)
(*   the text of the answer input is a sequence of one-character strings;   *)
(*   questionText `${num1} ${operator} ${num2} = ?` is <<num1, op, num2>>. *)
(***************************************************************************)
EXTENDS Integers, Sequences, FiniteSets, TLC

\* ---------------------------------------------------------------- constants
TOTAL_QUESTIONS == 30
QUESTION_DELAY == 3000
TICK_MS == 100
START_DELAY == 1000
MAX_ATTEMPTS == 20
FIRST_ANSWER_AT == 6
LEADERBOARD_CAP == 100
MAX_NAME == 50
RANDOM_RANGE == 10

\* ------------------------------------------------------------------- bounds
\* games started (start button or restart button) in one behaviour
MaxGames == 2
\* accepted submissions in one behaviour
MaxAnswers == 1
\* seeds of the random source used by the problem generator: 0..MaxSeed
MaxSeed == 0
\* ticks after which the model stops the wall clock
MaxTicks == 2200
\* entries the leaderboard may hold when a behaviour of the backends starts
MaxPrefill == 99
\* entries added to the leaderboard in one behaviour of the backends
MaxAdds == 2
\* the server's clock is ahead of the caller's by 0..MaxSkew
MaxSkew == 1
\* accepted submissions in one behaviour of the one-game specification
MaxScored == 3
\* there the user answers the problems 1..MaxEarlyId and the last one
MaxEarlyId == 2
\* problems the for loop of startGame generates in one behaviour of the loop
MaxSlots == 2
\* Math.floor(Math.random() * 10) is 0..MaxDraw in one behaviour of the loop
MaxDraw == 1

None == <<>>
Some(v) == <<v>>

VARIABLES
  gameState,          \* the React state gameState (the value the update queue holds)
  rendered,           \* the gameState captured by the last render (what handlers read)
  gameResults,        \* the React state gameResults (None until a report is built)
  justSubmitted,      \* the React state justSubmitted
  feedback,           \* the React state feedback.type with the reason of an error
  timeRemaining,      \* the React state timeRemaining
  countdownRef,       \* countdownRef.current: 0 or the id of the registered interval
  lastTickRef,        \* lastTickRef.current
  finalEndPendingRef, \* finalEndPendingRef.current
  tasks,              \* pending setTimeout(..., 0) callbacks, in order
  startTimers,        \* due times of the pending start-delay timeouts
  intervals,          \* ids of the intervals registered with window.setInterval
  now,                \* Date.now()
  games,              \* games started so far
  answers,            \* submissions accepted so far
  closureAnswerCounter, \* gameState.answerCounter as the memoized handleAnswerSubmit sees it
  localStore,         \* localStorage item LEADERBOARD_KEY: None or the stored list
  dbFile,             \* the server's leaderboard.json: the stored list
  added,              \* the entries given to the leaderboard so far, in order
  generated,          \* the value returned by the last call of generateQuestion
  slotLoop            \* the for loop of startGame: initialQuestions, attempts and q

\* the variables of the leaderboard backends and of the problem generator
lbVars == <<localStore, dbFile, added>>
genVars == <<generated, slotLoop>>

vars == <<gameState, rendered, gameResults, justSubmitted, feedback, timeRemaining,
          countdownRef, lastTickRef, finalEndPendingRef, tasks, startTimers, intervals,
          now, games, answers, closureAnswerCounter, localStore, dbFile, added, generated,
          slotLoop>>

\* ------------------------------------------------------- problem generator
\* The random source: draw k of the stream `seed` gives the two values of
\* Math.floor(Math.random() * 10) and the outcome of Math.random() > 0.5.
RandA(seed, k) == (seed * 7 + k * 3 + (k \div 4)) % 10
RandB(seed, k) == (seed + k * k + 2 * (k \div 3)) % 10
RandPlus(seed, k) == ((seed + k + (k \div 5)) % 2) = 0

\* (a slip: the operands of a subtraction are not put in order)
generateQuestion_NoSwap(questionNumber, r1, r2, plus) ==
  LET num1 == r1 + 1
      num2 == r2 + 1
      operator == IF plus THEN "+" ELSE "-"
      correctAnswer == IF operator = "-" THEN num1 - num2 ELSE num1 + num2
  IN [id |-> questionNumber, num1 |-> num1, num2 |-> num2,
      operator |-> operator, correctAnswer |-> correctAnswer,
      questionText |-> <<num1, operator, num2>>]

generateQuestion(questionNumber, r1, r2, plus) ==
  LET num1 == r1 + 1
      num2 == r2 + 1
      operator == IF plus THEN "+" ELSE "-"
      swap == operator = "-" /\ num1 < num2
      finalNum1 == IF swap THEN num2 ELSE num1
      finalNum2 == IF swap THEN num1 ELSE num2
      correctAnswer == IF operator = "-" THEN finalNum1 - finalNum2
                       ELSE finalNum1 + finalNum2
  IN [id |-> questionNumber, num1 |-> finalNum1, num2 |-> finalNum2,
      operator |-> operator, correctAnswer |-> correctAnswer,
      questionText |-> <<finalNum1, operator, finalNum2>>]

\* q repeats the text or the answer of the last problem of initialQuestions
RepeatsLast(q, initialQuestions) ==
  /\ Len(initialQuestions) > 0
  /\ \/ q.questionText = initialQuestions[Len(initialQuestions)].questionText
     \/ q.correctAnswer = initialQuestions[Len(initialQuestions)].correctAnswer

\* The condition of the do-while loop of startGame, tested after attempts++
DrawAgain(attempts, q, initialQuestions) ==
  attempts < MAX_ATTEMPTS /\ RepeatsLast(q, initialQuestions)

\* The do-while loop of startGame for slot i: draws from index k on, `attempts`
\* draws made so far; the result is <<question, next draw index>>.
RECURSIVE DrawSlot(_, _, _, _, _)
DrawSlot(seed, i, k, attempts, qs) ==
  LET q == generateQuestion(i, RandA(seed, k), RandB(seed, k), RandPlus(seed, k))
      n == attempts + 1
      again == DrawAgain(n, q, qs)
  IN IF again THEN DrawSlot(seed, i, k + 1, n, qs) ELSE <<q, k + 1>>

RECURSIVE InitialQuestions(_, _, _, _)
InitialQuestions(seed, i, k, qs) ==
  IF i > TOTAL_QUESTIONS THEN qs
  ELSE LET d == DrawSlot(seed, i, k, 0, qs)
       IN InitialQuestions(seed, i + 1, d[2], Append(qs, d[1]))

InitialAnswers ==
  [i \in 1..TOTAL_QUESTIONS |->
     [questionId |-> i, userAnswer |-> None, isCorrect |-> None, answeredAt |-> None]]

\* ------------------------------------------------------------- game state
EmptyGameState ==
  [questionCounter |-> 0, answerCounter |-> 0, questions |-> <<>>, userAnswers |-> <<>>,
   score |-> 0, gameStartTime |-> None, gameEndTime |-> None, isGameActive |-> FALSE,
   canAnswerQuestionId |-> 0]

NewGameState(seed, t) ==
  [questionCounter |-> 0, answerCounter |-> 0,
   questions |-> InitialQuestions(seed, 1, 0, <<>>),
   userAnswers |-> InitialAnswers,
   score |-> 0, gameStartTime |-> Some(t), gameEndTime |-> None, isGameActive |-> TRUE,
   canAnswerQuestionId |-> 0]

\* --------------------------------------------------- the boundary transition
\* The updater passed to setGameState by the deferred boundary callback.

\* (a slip: the reveal counter is not capped)
NextQuestionCounter_NoCap(prevState) == prevState.questionCounter + 1

\* newQuestionCounter: the reveal counter after this boundary
NextQuestionCounter(prevState) ==
  IF prevState.questionCounter < TOTAL_QUESTIONS
  THEN prevState.questionCounter + 1
  ELSE prevState.questionCounter

\* (a slip: the window opens one reveal early)
shouldStartAnswering_Early(prevState) ==
  \/ NextQuestionCounter(prevState) = FIRST_ANSWER_AT - 1 /\ prevState.answerCounter = 0
  \/ NextQuestionCounter(prevState) > FIRST_ANSWER_AT - 1 /\ prevState.answerCounter > 0

\* (a slip: the window opens one reveal late)
shouldStartAnswering_Late(prevState) ==
  \/ NextQuestionCounter(prevState) = FIRST_ANSWER_AT + 1 /\ prevState.answerCounter = 0
  \/ NextQuestionCounter(prevState) > FIRST_ANSWER_AT + 1 /\ prevState.answerCounter > 0

shouldStartAnswering(prevState) ==
  \/ NextQuestionCounter(prevState) = FIRST_ANSWER_AT /\ prevState.answerCounter = 0
  \/ NextQuestionCounter(prevState) > FIRST_ANSWER_AT /\ prevState.answerCounter > 0

\* (a slip: the record after the expiring one is stamped)
MarkProcessed_Next(userAnswers, id, t) ==
  [i \in DOMAIN userAnswers |->
     IF userAnswers[i].questionId = id + 1
     THEN [userAnswers[i] EXCEPT !.answeredAt = Some(t)]
     ELSE userAnswers[i]]

\* (a slip: the stamped record is built anew and loses its answer)
MarkProcessed_ClearsAnswer(userAnswers, id, t) ==
  [i \in DOMAIN userAnswers |->
     IF userAnswers[i].questionId = id
     THEN [questionId |-> id, userAnswer |-> None, isCorrect |-> None,
           answeredAt |-> Some(t)]
     ELSE userAnswers[i]]

\* userAnswers.map of the boundary: stamps answeredAt of the record of `id`
MarkProcessed(userAnswers, id, t) ==
  [i \in DOMAIN userAnswers |->
     IF userAnswers[i].questionId = id
     THEN [userAnswers[i] EXCEPT !.answeredAt = Some(t)]
     ELSE userAnswers[i]]

AdvancesAnswer(prevState) ==
  /\ prevState.isGameActive
  /\ shouldStartAnswering(prevState)
  /\ prevState.answerCounter < TOTAL_QUESTIONS

\* (a slip: the comparison is the wrong way round)
ReachesTotal_Inverted(newAnswerCounter) == newAnswerCounter <= TOTAL_QUESTIONS

\* newAnswerCounter >= TOTAL_QUESTIONS: the answer counter reaches the last problem
ReachesTotal(newAnswerCounter) == newAnswerCounter >= TOTAL_QUESTIONS

\* (a slip: the flag is never set)
AdvanceArms_Never(prevState) ==
  AdvancesAnswer(prevState) /\ prevState.answerCounter >= TOTAL_QUESTIONS

\* TRUE when the updater sets finalEndPendingRef.current
AdvanceArms(prevState) ==
  AdvancesAnswer(prevState) /\ ReachesTotal(prevState.answerCounter + 1)

AdvanceState(prevState, t) ==
  IF ~prevState.isGameActive THEN prevState
  ELSE
    LET newQuestionCounter == NextQuestionCounter(prevState)
        answering == AdvancesAnswer(prevState)
        newUserAnswers == IF answering /\ prevState.canAnswerQuestionId # 0
                          THEN MarkProcessed(prevState.userAnswers,
                                             prevState.canAnswerQuestionId, t)
                          ELSE prevState.userAnswers
        newAnswerCounter == IF answering THEN prevState.answerCounter + 1
                            ELSE prevState.answerCounter
    IN IF answering /\ ReachesTotal(newAnswerCounter)
       THEN [prevState EXCEPT !.userAnswers = newUserAnswers,
                              !.answerCounter = TOTAL_QUESTIONS,
                              !.canAnswerQuestionId = TOTAL_QUESTIONS]
       ELSE [prevState EXCEPT !.questionCounter = newQuestionCounter,
                              !.answerCounter = newAnswerCounter,
                              !.userAnswers = newUserAnswers,
                              !.canAnswerQuestionId =
                                 IF answering THEN newAnswerCounter
                                 ELSE prevState.canAnswerQuestionId]

\* The updater of the final-end callback
FinalEndState(prev, t) ==
  [prev EXCEPT !.isGameActive = FALSE, !.gameEndTime = Some(t)]

\* ------------------------------------------------------------ the report
BuildResults(g) ==
  [totalQuestions |-> TOTAL_QUESTIONS,
   correctAnswers |-> g.score,
   score |-> g.score,
   accuracy |-> [num |-> g.score * 100, den |-> TOTAL_QUESTIONS],
   totalTime |-> g.gameEndTime[1] - (IF g.gameStartTime = None THEN 0
                                     ELSE g.gameStartTime[1]),
   questionDetails |->
     [i \in DOMAIN g.questions |->
        [question |-> g.questions[i],
         userAnswer |-> g.userAnswers[CHOOSE j \in DOMAIN g.userAnswers :
                                        g.userAnswers[j].questionId = g.questions[i].id]]]]

\* The effect that builds the report: it runs after a render in which one of its
\* dependencies changed.
ResultsDepsChanged(old, new) ==
  \/ old.isGameActive # new.isGameActive
  \/ old.gameEndTime # new.gameEndTime
  \/ old.questions # new.questions
  \/ old.userAnswers # new.userAnswers
  \/ old.score # new.score
  \/ old.gameStartTime # new.gameStartTime

\* (a slip: the guard on the problem list is missing)
ResultsAfterRender_NoQuestionsGuard(old, new, results) ==
  IF /\ ResultsDepsChanged(old, new)
     /\ ~new.isGameActive
     /\ new.gameEndTime # None
  THEN Some(BuildResults(new))
  ELSE results

ResultsAfterRender(old, new, results) ==
  IF /\ ResultsDepsChanged(old, new)
     /\ ~new.isGameActive
     /\ new.gameEndTime # None
     /\ Len(new.questions) > 0
  THEN Some(BuildResults(new))
  ELSE results

\* The effect on canAnswerQuestionId: resets justSubmitted and the feedback
CanAnswerChanged(old, new) == old.canAnswerQuestionId # new.canAnswerQuestionId

\* ------------------------------------------------------ the answer input
DigitChars == <<"0", "1", "2", "3", "4", "5", "6", "7", "8", "9">>
IsDigit(c) == \E i \in DOMAIN DigitChars : DigitChars[i] = c
DigitVal(c) == (CHOOSE i \in DOMAIN DigitChars : DigitChars[i] = c) - 1

\* Number.prototype.toString of a non-negative integer
RECURSIVE Digits(_)
Digits(n) == IF n < 10 THEN <<DigitChars[n + 1]>>
             ELSE Append(Digits(n \div 10), DigitChars[(n % 10) + 1])

RECURSIVE SkipSpaces(_)
SkipSpaces(text) == IF text # <<>> /\ Head(text) = " " THEN SkipSpaces(Tail(text))
                    ELSE text

\* String.prototype.trim() is empty
TrimIsEmpty(text) == SkipSpaces(text) = <<>>

RECURSIVE DigitPrefix(_, _)
DigitPrefix(text, acc) ==
  IF text # <<>> /\ IsDigit(Head(text))
  THEN DigitPrefix(Tail(text), acc * 10 + DigitVal(Head(text)))
  ELSE acc

\* (a slip: a text with no leading digit parses as 0 instead of NaN)
parseInt_Lenient(text) ==
  LET t == SkipSpaces(text)
      signed == t # <<>> /\ Head(t) \in {"-", "+"}
      body == IF signed THEN Tail(t) ELSE t
  IN IF signed /\ Head(t) = "-" THEN Some(0 - DigitPrefix(body, 0))
     ELSE Some(DigitPrefix(body, 0))

\* parseInt: leading blanks, an optional sign, the longest prefix of digits;
\* None is NaN
parseInt(text) ==
  LET t == SkipSpaces(text)
      signed == t # <<>> /\ Head(t) \in {"-", "+"}
      body == IF signed THEN Tail(t) ELSE t
  IN IF body = <<>> \/ ~IsDigit(Head(body)) THEN None
     ELSE IF signed /\ Head(t) = "-" THEN Some(0 - DigitPrefix(body, 0))
     ELSE Some(DigitPrefix(body, 0))

\* What the user may type for question q
InputsFor(q) ==
  {Digits(q.correctAnswer), Digits(q.correctAnswer + 1), <<"x">>, <<" ">>}

\* ============================================================ leaderboard
\* An entry is [name, score, totalTime, createdAt]; name is a sequence of
\* characters and createdAt the reading of a clock. The stored JSON text keeps
\* strings as they are and writes numbers in decimal. (<<>> \o f is the
\* function f with domain 1..n as a sequence.)

\* JSON.stringify / JSON.parse of a list of entries
stringify(arr) ==
  <<>> \o [i \in DOMAIN arr |->
            [name |-> arr[i].name, score |-> Digits(arr[i].score),
             totalTime |-> Digits(arr[i].totalTime), createdAt |-> arr[i].createdAt]]

parse(raw) ==
  <<>> \o [i \in DOMAIN raw |->
            [name |-> raw[i].name, score |-> DigitPrefix(raw[i].score, 0),
             totalTime |-> DigitPrefix(raw[i].totalTime, 0),
             createdAt |-> raw[i].createdAt]]

\* Array.prototype.slice(0, n)
slice(arr, n) == SubSeq(arr, 1, IF Len(arr) < n THEN Len(arr) ELSE n)

\* ------------------------------------------------- local backend (hooks)
\* (a slip: equal scores are ordered by the longer time first)
compareLocal_TimeDescending(a, b) ==
  IF b.score # a.score THEN b.score - a.score ELSE b.totalTime - a.totalTime

\* the comparator of sortAndTrim
compareLocal(a, b) ==
  IF b.score # a.score THEN b.score - a.score ELSE a.totalTime - b.totalTime

\* Array.prototype.sort is stable: an element goes behind the elements the
\* comparator puts before it and behind the earlier elements it ties with
sortLocal(arr) ==
  LET place == <<>> \o [k \in DOMAIN arr |->
                          Cardinality({j \in DOMAIN arr :
                                         \/ compareLocal(arr[j], arr[k]) < 0
                                         \/ compareLocal(arr[j], arr[k]) = 0 /\ j <= k})]
  IN <<>> \o [p \in DOMAIN arr |-> arr[CHOOSE k \in DOMAIN arr : place[k] = p]]

sortAndTrim(arr) == slice(sortLocal(arr), LEADERBOARD_CAP)

\* readLeaderboard(): a missing item reads as the empty list
readLeaderboard(store) ==
  sortAndTrim(IF store = None THEN <<>> ELSE parse(store[1]))

\* writeLeaderboard(entries): <<the stored item, the returned list>>
writeLeaderboard(entries) ==
  LET data == sortAndTrim(entries) IN <<Some(stringify(data)), data>>

addLeaderboardEntry(store, entry) ==
  writeLeaderboard(Append(readLeaderboard(store), entry))

\* ------------------------------------------------ remote backend (server)
readDB(file) == parse(file)
writeDB(arr) == stringify(arr)

\* (a slip: equal scores are ordered by the longer time first)
compareServer_TimeDescending(a, b) ==
  IF b.score # a.score THEN b.score - a.score ELSE b.totalTime - a.totalTime

\* the comparator of GET /api/leaderboard
compareServer(a, b) ==
  IF b.score # a.score THEN b.score - a.score ELSE a.totalTime - b.totalTime

sortServer(arr) ==
  LET place == <<>> \o [k \in DOMAIN arr |->
                          Cardinality({j \in DOMAIN arr :
                                         \/ compareServer(arr[j], arr[k]) < 0
                                         \/ compareServer(arr[j], arr[k]) = 0 /\ j <= k})]
  IN <<>> \o [p \in DOMAIN arr |-> arr[CHOOSE k \in DOMAIN arr : place[k] = p]]

\* GET /api/leaderboard: the list of the response
getLeaderboard(file) == slice(sortServer(readDB(file)), LEADERBOARD_CAP)

\* POST /api/leaderboard with body {name, score, totalTime} when the server's
\* clock reads t: the file after the request (unchanged on status 400)
postLeaderboard(file, body, t) ==
  IF body.name = <<>> THEN file
  ELSE LET entry == [name |-> slice(body.name, MAX_NAME), score |-> body.score,
                     totalTime |-> body.totalTime, createdAt |-> t]
       IN writeDB(Append(readDB(file), entry))

\* ------------------------------------------- the memoized submit handler
\* useCallback keeps handleAnswerSubmit, with the gameState it closed over, until
\* a render in which one of its dependencies changed. Of gameState the list names
\* canAnswerQuestionId, questions and userAnswers.
\* (a slip: the list does not name canAnswerQuestionId)
SubmitDepsChanged_NoEligible(old, new) ==
  \/ old.questions # new.questions
  \/ old.userAnswers # new.userAnswers

SubmitDepsChanged(old, new) ==
  \/ old.canAnswerQuestionId # new.canAnswerQuestionId
  \/ old.questions # new.questions
  \/ old.userAnswers # new.userAnswers

\* gameState.answerCounter of the handler after a render of `new`. `other` is
\* TRUE when a dependency outside gameState changed too (the text of the input,
\* the selected question) or an array was replaced by an equal one.
ClosureAfterRender(old, new, seen, other) ==
  IF SubmitDepsChanged(old, new) \/ other THEN new.answerCounter ELSE seen

\* The gameState handleAnswerSubmit closed over: it agrees with the rendered one
\* on the fields its dependency list names
Closure == [rendered EXCEPT !.answerCounter = closureAnswerCounter]

\* ------------------------------------------------------------- the screens
ShowsResults == gameResults # None
ShowsStart == ~ShowsResults /\ ~rendered.isGameActive /\ Len(rendered.questions) = 0
ShowsGame == ~ShowsResults /\ ~ShowsStart

canAnswerQuestion ==
  {i \in DOMAIN rendered.questions : rendered.questions[i].id = rendered.canAnswerQuestionId}

ShowsForm == ShowsGame /\ canAnswerQuestion # {} /\ ~justSubmitted

\* A render is pending: the update queue holds a state that was not rendered yet
Dirty == rendered # gameState

\* ---------------------------------------------------------------- startGame
startGame ==
  /\ ShowsStart \/ ShowsResults
  /\ games < MaxGames
  /\ \E seed \in 0..MaxSeed :
       /\ gameState' = NewGameState(seed, now)
       /\ rendered' = gameState'
  /\ closureAnswerCounter' = ClosureAfterRender(rendered, rendered', closureAnswerCounter, TRUE)
  /\ gameResults' = ResultsAfterRender(rendered, rendered', None)
  /\ feedback' = ""
  /\ justSubmitted' = FALSE
  /\ startTimers' = startTimers \cup {now + START_DELAY}
  /\ games' = games + 1
  /\ UNCHANGED <<timeRemaining, countdownRef, lastTickRef, finalEndPendingRef, tasks,
                 intervals, now, answers>>
  /\ UNCHANGED <<lbVars, genVars>>

\* The callback of the start delay: shows the first question and calls startCountdown
NewIntervalId == CHOOSE id \in 1..(Cardinality(intervals) + 1) : id \notin intervals

\* (a slip: startCountdown registers an interval without testing countdownRef)
StartDelayFire_NoGuard ==
  /\ tasks = <<>>
  /\ ~Dirty
  /\ \E d \in startTimers :
       /\ \A e \in startTimers : d <= e
       /\ d <= now \/ intervals = {}
       /\ now' = IF d > now THEN d ELSE now
       /\ startTimers' = startTimers \ {d}
  /\ gameState' = [gameState EXCEPT !.questionCounter = 1]
  /\ timeRemaining' = QUESTION_DELAY
  /\ lastTickRef' = 0
  /\ countdownRef' = NewIntervalId
  /\ intervals' = intervals \cup {NewIntervalId}
  /\ UNCHANGED <<rendered, gameResults, justSubmitted, feedback, finalEndPendingRef,
                 tasks, games, answers>>
  /\ UNCHANGED <<lbVars, genVars>>
  /\ UNCHANGED closureAnswerCounter

StartDelayFire ==
  /\ tasks = <<>>
  /\ ~Dirty
  /\ \E d \in startTimers :
       /\ \A e \in startTimers : d <= e
       /\ d <= now \/ intervals = {}
       /\ now' = IF d > now THEN d ELSE now
       /\ startTimers' = startTimers \ {d}
  /\ gameState' = [gameState EXCEPT !.questionCounter = 1]
  /\ timeRemaining' = QUESTION_DELAY
  /\ IF countdownRef # 0
     THEN UNCHANGED <<countdownRef, lastTickRef, intervals>>
     ELSE /\ lastTickRef' = 0
          /\ countdownRef' = NewIntervalId
          /\ intervals' = intervals \cup {NewIntervalId}
  /\ UNCHANGED <<rendered, gameResults, justSubmitted, feedback, finalEndPendingRef,
                 tasks, games, answers>>
  /\ UNCHANGED <<lbVars, genVars>>
  /\ UNCHANGED closureAnswerCounter

\* ------------------------------------------------------- the interval tick
\* The updater passed to setTimeRemaining by the interval callback, with its
\* effects on the refs and on the timeout queue. r = [lastTick, pending, tasks].

\* (a slip: the last-boundary check rejects every boundary)
Debounced_Always(lastTick, currentTime) == currentTime - lastTick >= 0

\* (a slip: the last-boundary check never rejects)
Debounced_Never(lastTick, currentTime) == currentTime - lastTick < 0

Debounced(lastTick, currentTime) == currentTime - lastTick < TICK_MS

TickUpdater(prev, r, currentTime) ==
  IF prev <= TICK_MS
  THEN IF Debounced(r.lastTick, currentTime)
       THEN [timeRemaining |-> QUESTION_DELAY, lastTick |-> r.lastTick,
             pending |-> r.pending, tasks |-> r.tasks]
       ELSE IF r.pending
       THEN [timeRemaining |-> QUESTION_DELAY, lastTick |-> currentTime,
             pending |-> FALSE, tasks |-> Append(r.tasks, "finalEnd")]
       ELSE [timeRemaining |-> QUESTION_DELAY, lastTick |-> currentTime,
             pending |-> r.pending, tasks |-> Append(r.tasks, "advance")]
  ELSE [timeRemaining |-> prev - TICK_MS, lastTick |-> r.lastTick,
        pending |-> r.pending, tasks |-> r.tasks]

\* One firing of the interval. React may invoke an updater twice with the same
\* previous value (StrictMode); the value of the last invocation is kept.
Tick ==
  /\ intervals # {}
  /\ tasks = <<>>
  /\ ~Dirty
  /\ \A d \in startTimers : d > now
  /\ now < START_DELAY + MaxTicks * TICK_MS
  /\ now' = now + TICK_MS
  /\ \E twice \in BOOLEAN :
       LET r0 == [lastTick |-> lastTickRef, pending |-> finalEndPendingRef, tasks |-> tasks]
           u1 == TickUpdater(timeRemaining, r0, now')
           u2 == IF twice THEN TickUpdater(timeRemaining, u1, now') ELSE u1
       IN /\ timeRemaining' = u2.timeRemaining
          /\ lastTickRef' = u2.lastTick
          /\ finalEndPendingRef' = u2.pending
          /\ tasks' = u2.tasks
  /\ UNCHANGED <<gameState, rendered, gameResults, justSubmitted, feedback, countdownRef,
                 startTimers, intervals, games, answers>>
  /\ UNCHANGED <<lbVars, genVars>>
  /\ UNCHANGED closureAnswerCounter

\* ------------------------------------------- the deferred boundary callbacks
RunFinalEnd ==
  /\ tasks # <<>>
  /\ Head(tasks) = "finalEnd"
  /\ tasks' = Tail(tasks)
  /\ IF countdownRef # 0
     THEN intervals' = intervals \ {countdownRef} /\ countdownRef' = 0
     ELSE UNCHANGED <<intervals, countdownRef>>
  /\ gameState' = FinalEndState(gameState, now)
  /\ UNCHANGED <<rendered, gameResults, justSubmitted, feedback, timeRemaining,
                 lastTickRef, finalEndPendingRef, startTimers, now, games, answers>>
  /\ UNCHANGED <<lbVars, genVars>>
  /\ UNCHANGED closureAnswerCounter

RunAdvance ==
  /\ tasks # <<>>
  /\ Head(tasks) = "advance"
  /\ tasks' = Tail(tasks)
  /\ gameState' = AdvanceState(gameState, now)
  /\ finalEndPendingRef' = (finalEndPendingRef \/ AdvanceArms(gameState))
  /\ UNCHANGED <<rendered, gameResults, justSubmitted, feedback, timeRemaining,
                 countdownRef, lastTickRef, startTimers, intervals, now, games, answers>>
  /\ UNCHANGED <<lbVars, genVars>>
  /\ UNCHANGED closureAnswerCounter

\* ------------------------------------------------------------------- render
\* React renders the state of the update queue and runs the effects
Render ==
  /\ Dirty
  /\ rendered' = gameState
  /\ gameResults' = ResultsAfterRender(rendered, gameState, gameResults)
  /\ IF CanAnswerChanged(rendered, gameState)
     THEN justSubmitted' = FALSE /\ feedback' = ""
     ELSE UNCHANGED <<justSubmitted, feedback>>
  /\ \E other \in BOOLEAN :
       closureAnswerCounter' =
         ClosureAfterRender(rendered, gameState, closureAnswerCounter, other)
  /\ UNCHANGED <<gameState, timeRemaining, countdownRef, lastTickRef, finalEndPendingRef,
                 tasks, startTimers, intervals, now, games, answers>>
  /\ UNCHANGED <<lbVars, genVars>>

\* ------------------------------------------------------- handleAnswerSubmit
\* (a slip: every recorded answer scores)
RecordAnswer_AlwaysScores(prev, targetQuestionId, answerValue, isCorrect, t) ==
  [prev EXCEPT
     !.userAnswers =
        [i \in DOMAIN prev.userAnswers |->
           IF prev.userAnswers[i].questionId = targetQuestionId
           THEN [prev.userAnswers[i] EXCEPT !.userAnswer = Some(answerValue),
                                            !.isCorrect = Some(isCorrect),
                                            !.answeredAt = Some(t)]
           ELSE prev.userAnswers[i]],
     !.score = prev.score + 1]

\* (a slip: the record keeps its isCorrect)
RecordAnswer_KeepsFlag(prev, targetQuestionId, answerValue, isCorrect, t) ==
  [prev EXCEPT
     !.userAnswers =
        [i \in DOMAIN prev.userAnswers |->
           IF prev.userAnswers[i].questionId = targetQuestionId
           THEN [prev.userAnswers[i] EXCEPT !.userAnswer = Some(answerValue),
                                            !.answeredAt = Some(t)]
           ELSE prev.userAnswers[i]],
     !.score = IF isCorrect THEN prev.score + 1 ELSE prev.score]

\* The first updater of handleAnswerSubmit
RecordAnswer(prev, targetQuestionId, answerValue, isCorrect, t) ==
  [prev EXCEPT
     !.userAnswers =
        [i \in DOMAIN prev.userAnswers |->
           IF prev.userAnswers[i].questionId = targetQuestionId
           THEN [prev.userAnswers[i] EXCEPT !.userAnswer = Some(answerValue),
                                            !.isCorrect = Some(isCorrect),
                                            !.answeredAt = Some(t)]
           ELSE prev.userAnswers[i]],
     !.score = IF isCorrect THEN prev.score + 1 ELSE prev.score]

\* TRUE when handleAnswerSubmit ends the game: it reads the state g of its closure
EndsGame(g, targetQuestionId) ==
  targetQuestionId = TOTAL_QUESTIONS /\ g.answerCounter >= TOTAL_QUESTIONS

\* Both updaters of an accepted submission, applied to a state of the queue
SubmitUpdate(prev, g, targetQuestionId, answerValue, isCorrect, t) ==
  LET nextState == RecordAnswer(prev, targetQuestionId, answerValue, isCorrect, t)
  IN IF EndsGame(g, targetQuestionId) THEN FinalEndState(nextState, t) ELSE nextState

AlreadyAnswered(g, targetQuestionId) ==
  \E i \in DOMAIN g.userAnswers :
     /\ g.userAnswers[i].questionId = targetQuestionId
     /\ \A j \in DOMAIN g.userAnswers :
          g.userAnswers[j].questionId = targetQuestionId => i <= j
     /\ g.userAnswers[i].userAnswer # None

\* TRUE when handleAnswerSubmit takes none of its early returns
Accepts(currentAnswer) ==
  LET targetQuestionId == rendered.canAnswerQuestionId
  IN /\ targetQuestionId # 0
     /\ ~TrimIsEmpty(currentAnswer)
     /\ ~AlreadyAnswered(rendered, targetQuestionId)
     /\ parseInt(currentAnswer) # None
     /\ \E i \in DOMAIN rendered.questions : rendered.questions[i].id = targetQuestionId

handleAnswerSubmit(currentAnswer) ==
  LET targetQuestionId == rendered.canAnswerQuestionId
      answerValue == parseInt(currentAnswer)
      found == {i \in DOMAIN rendered.questions :
                  rendered.questions[i].id = targetQuestionId}
  IN IF targetQuestionId = 0 \/ TrimIsEmpty(currentAnswer)
     THEN UNCHANGED vars
     ELSE IF AlreadyAnswered(rendered, targetQuestionId)
     THEN /\ feedback' = "already"
          /\ closureAnswerCounter' =
               ClosureAfterRender(rendered, rendered, closureAnswerCounter, TRUE)
          /\ UNCHANGED <<gameState, rendered, gameResults, justSubmitted, timeRemaining,
                         countdownRef, lastTickRef, finalEndPendingRef, tasks,
                         startTimers, intervals, now, games, answers>>
     ELSE IF answerValue = None
     THEN /\ feedback' = "invalid"
          /\ closureAnswerCounter' =
               ClosureAfterRender(rendered, rendered, closureAnswerCounter, FALSE)
          /\ UNCHANGED <<gameState, rendered, gameResults, justSubmitted, timeRemaining,
                         countdownRef, lastTickRef, finalEndPendingRef, tasks,
                         startTimers, intervals, now, games, answers>>
     ELSE IF found = {}
     THEN UNCHANGED vars
     ELSE
       LET questionToAnswer == rendered.questions[CHOOSE i \in found :
                                                    \A j \in found : i <= j]
           isCorrect == answerValue[1] = questionToAnswer.correctAnswer
       IN /\ gameState' = SubmitUpdate(gameState, Closure, targetQuestionId,
                                       answerValue[1], isCorrect, now)
          /\ rendered' = SubmitUpdate(rendered, Closure, targetQuestionId,
                                      answerValue[1], isCorrect, now)
          /\ closureAnswerCounter' =
               ClosureAfterRender(rendered, rendered', closureAnswerCounter, TRUE)
          /\ gameResults' = ResultsAfterRender(rendered, rendered', gameResults)
          /\ feedback' = IF isCorrect THEN "success" ELSE "error"
          /\ justSubmitted' = TRUE
          /\ answers' = answers + 1
          /\ UNCHANGED <<timeRemaining, countdownRef, lastTickRef, finalEndPendingRef,
                         tasks, startTimers, intervals, now, games>>

\* The form is submitted with the text the user typed; at most MaxAnswers
\* submissions are accepted in one behaviour
Submit ==
  /\ ShowsForm
  /\ \E i \in canAnswerQuestion :
       \E currentAnswer \in InputsFor(rendered.questions[i]) :
          /\ Accepts(currentAnswer) => answers < MaxAnswers
          /\ handleAnswerSubmit(currentAnswer)
  /\ UNCHANGED <<lbVars, genVars>>

\* --------------------------------------------------------------- onBackHome
onBackHome ==
  /\ ShowsResults
  /\ gameResults' = None
  /\ feedback' = ""
  /\ justSubmitted' = FALSE
  /\ gameState' = EmptyGameState
  /\ rendered' = EmptyGameState
  /\ closureAnswerCounter' =
       ClosureAfterRender(rendered, rendered', closureAnswerCounter, FALSE)
  /\ UNCHANGED <<timeRemaining, countdownRef, lastTickRef, finalEndPendingRef, tasks,
                 startTimers, intervals, now, games, answers>>
  /\ UNCHANGED <<lbVars, genVars>>

\* ------------------------------------------------------------ specification
\* the component after it is mounted
GameInit ==
  /\ gameState = EmptyGameState
  /\ rendered = EmptyGameState
  /\ gameResults = None
  /\ justSubmitted = FALSE
  /\ feedback = ""
  /\ timeRemaining = QUESTION_DELAY
  /\ countdownRef = 0
  /\ lastTickRef = 0
  /\ finalEndPendingRef = FALSE
  /\ tasks = <<>>
  /\ startTimers = {}
  /\ intervals = {}
  /\ now = START_DELAY
  /\ games = 0
  /\ answers = 0
  /\ closureAnswerCounter = 0

\* startGame before the first iteration of its for loop
LoopStart == [initialQuestions |-> <<>>, attempts |-> 0, q |-> None]

\* no leaderboard item is stored, the server created an empty file, and
\* generateQuestion was not called
Init ==
  /\ GameInit
  /\ localStore = None
  /\ dbFile = <<>>
  /\ added = <<>>
  /\ generated = None
  /\ slotLoop = LoopStart

Next ==
  \/ startGame
  \/ StartDelayFire
  \/ Tick
  \/ RunFinalEnd
  \/ RunAdvance
  \/ Render
  \/ Submit
  \/ onBackHome

Spec == Init /\ [][Next]_vars

\* The browser runs every due timer callback and React renders every queued
\* update: the start delay, the interval, the deferred callbacks and the render
\* are taken whenever they stay enabled.
FairSpec ==
  /\ Spec
  /\ WF_vars(StartDelayFire)
  /\ WF_vars(Tick)
  /\ WF_vars(RunAdvance)
  /\ WF_vars(RunFinalEnd)
  /\ WF_vars(Render)

\* ------------------------------------- specification of one game, answered
\* One game in which the user answers several problems: the first ones and the
\* last one, at most MaxScored accepted submissions.
StartOnce == games = 0 /\ startGame

SubmitSome ==
  /\ ShowsForm
  /\ rendered.canAnswerQuestionId \in (1..MaxEarlyId) \cup {TOTAL_QUESTIONS}
  /\ \E i \in canAnswerQuestion :
       \E currentAnswer \in InputsFor(rendered.questions[i]) :
          /\ Accepts(currentAnswer) => answers < MaxScored
          /\ handleAnswerSubmit(currentAnswer)
  /\ UNCHANGED <<lbVars, genVars>>

ScoreNext ==
  \/ StartOnce
  \/ StartDelayFire
  \/ Tick
  \/ RunFinalEnd
  \/ RunAdvance
  \/ Render
  \/ SubmitSome
  \/ onBackHome

ScoreSpec == Init /\ [][ScoreNext]_vars

\* --------------------------------- specification of the problem generator
\* One call of generateQuestion, for the first or the last problem:
\* Math.floor(Math.random() * 10) is any of 0..9 and Math.random() > 0.5 is
\* either truth value.
CallGenerateQuestion ==
  /\ \E questionNumber \in {1, TOTAL_QUESTIONS},
        r1 \in 0..(RANDOM_RANGE - 1), r2 \in 0..(RANDOM_RANGE - 1), plus \in BOOLEAN :
       generated' = Some(generateQuestion(questionNumber, r1, r2, plus))
  /\ UNCHANGED slotLoop
  /\ UNCHANGED <<gameState, rendered, gameResults, justSubmitted, feedback,
                 timeRemaining, countdownRef, lastTickRef, finalEndPendingRef, tasks,
                 startTimers, intervals, now, games, answers, closureAnswerCounter>>
  /\ UNCHANGED lbVars

GenNext == CallGenerateQuestion

GenSpec == Init /\ [][GenNext]_vars

\* ------------------------------ specification of the loop of startGame
\* The for loop of startGame, one step per draw: the body of the do-while
\* (q = generateQuestion(i); attempts++) and, when its condition fails, the push
\* that ends the iteration. The draws are any values of the random source.
InLoop ==
  IF slotLoop.q = None THEN TRUE
  ELSE DrawAgain(slotLoop.attempts, slotLoop.q[1], slotLoop.initialQuestions)

DrawAttempt ==
  /\ Len(slotLoop.initialQuestions) < MaxSlots
  /\ InLoop
  /\ \E r1 \in 0..MaxDraw, r2 \in 0..MaxDraw, plus \in BOOLEAN :
       slotLoop' = [slotLoop EXCEPT
                      !.q = Some(generateQuestion(Len(slotLoop.initialQuestions) + 1,
                                                  r1, r2, plus)),
                      !.attempts = slotLoop.attempts + 1]
  /\ UNCHANGED <<gameState, rendered, gameResults, justSubmitted, feedback,
                 timeRemaining, countdownRef, lastTickRef, finalEndPendingRef, tasks,
                 startTimers, intervals, now, games, answers, closureAnswerCounter>>
  /\ UNCHANGED <<lbVars, generated>>

PushQuestion ==
  /\ Len(slotLoop.initialQuestions) < MaxSlots
  /\ ~InLoop
  /\ slotLoop' = [initialQuestions |-> Append(slotLoop.initialQuestions, slotLoop.q[1]),
                  attempts |-> 0, q |-> None]
  /\ UNCHANGED <<gameState, rendered, gameResults, justSubmitted, feedback,
                 timeRemaining, countdownRef, lastTickRef, finalEndPendingRef, tasks,
                 startTimers, intervals, now, games, answers, closureAnswerCounter>>
  /\ UNCHANGED <<lbVars, generated>>

LoopNext == DrawAttempt \/ PushQuestion

LoopSpec == Init /\ [][LoopNext]_vars

\* ------------------------------------- specification of the two backends
\* Both backends receive the same entries in the same order: the local one
\* through addLeaderboardEntry with the createdAt of the caller, the remote one
\* through POST, which stamps createdAt with the server's clock.
PlayerNames == {<<"a">>, [i \in 1..MAX_NAME |-> "n"]}
Scores == {9, 10}
TotalTimes == {15, 20}

\* the entries a leaderboard holds when a behaviour starts: the i-th was added
\* when both clocks read i
PrefillEntry(i) ==
  [name |-> <<"p">>, score |-> 9 + (i % 2), totalTime |-> 15 + 5 * ((i \div 2) % 2),
   createdAt |-> i]

Prefill(n) == <<>> \o [i \in 1..n |-> PrefillEntry(i)]

\* the local item / the server's file after entries[k..] are added one by one;
\* every call returns before the next one is made
RECURSIVE LocalAfter(_, _, _)
LocalAfter(entries, k, store) ==
  IF k > Len(entries) THEN store
  ELSE LET written == addLeaderboardEntry(store, entries[k])
       IN IF Len(written[2]) > 0 THEN LocalAfter(entries, k + 1, written[1])
          ELSE written[1]

RECURSIVE ServerAfter(_, _, _)
ServerAfter(entries, k, file) ==
  IF k > Len(entries) THEN file
  ELSE LET posted == postLeaderboard(file, entries[k], entries[k].createdAt)
       IN IF Len(posted) > 0 THEN ServerAfter(entries, k + 1, posted)
          ELSE posted

AddsDone == IF Len(added) >= MaxPrefill THEN Len(added) - MaxPrefill ELSE Len(added)

AddEntry ==
  /\ AddsDone < MaxAdds
  /\ \E name \in PlayerNames, score \in Scores, totalTime \in TotalTimes,
        skew \in 0..MaxSkew :
       LET entry == [name |-> name, score |-> score, totalTime |-> totalTime,
                     createdAt |-> Len(added) + 1]
       IN /\ localStore' = addLeaderboardEntry(localStore, entry)[1]
          /\ dbFile' = postLeaderboard(dbFile, entry, entry.createdAt + skew)
          /\ added' = Append(added, entry)
  /\ UNCHANGED <<gameState, rendered, gameResults, justSubmitted, feedback,
                 timeRemaining, countdownRef, lastTickRef, finalEndPendingRef, tasks,
                 startTimers, intervals, now, games, answers, closureAnswerCounter>>
  /\ UNCHANGED genVars

LbInit ==
  /\ GameInit
  /\ generated = None
  /\ slotLoop = LoopStart
  /\ \E n \in {0, MaxPrefill} :
       /\ added = Prefill(n)
       /\ localStore = LocalAfter(Prefill(n), 1, None)
       /\ dbFile = ServerAfter(Prefill(n), 1, <<>>)

LbNext == AddEntry

LbSpec == LbInit /\ [][LbNext]_vars

\* =================================================================== claims
Running == gameState.isGameActive
Started == Len(gameState.questions) > 0
Finished == Started /\ ~gameState.isGameActive /\ gameState.gameEndTime # None

IsOpen(a) == a.userAnswer = None /\ a.answeredAt = None
IsAnswered(a) == a.userAnswer # None
IsSkipped(a) == a.userAnswer = None /\ a.answeredAt # None

\* A step inside one session: no game was started and the state was not cleared
SameSession == games' = games /\ Started /\ Len(gameState'.questions) > 0

\* A step that runs the queued boundary transition / the queued final end
AdvanceStep == tasks # <<>> /\ Head(tasks) = "advance" /\ tasks' = Tail(tasks)
FinalEndStep == tasks # <<>> /\ Head(tasks) = "finalEnd" /\ tasks' = Tail(tasks)

\* C1: whenever the session is Finished, none of its 30 answer records is open
\* (each is answered, or marked processed with answeredAt set).
C1_AllResolvedWhenFinished ==
  Finished => \A i \in DOMAIN gameState.userAnswers : ~IsOpen(gameState.userAnswers[i])

\* C2: once a session has an end time, no later step of that session changes it
\* (the submission of problem 30 ends the game and the timeout path does not run
\* afterwards).
C2_EndTimeSetOnce ==
  [][(SameSession /\ gameState.gameEndTime # None)
       => gameState'.gameEndTime = gameState.gameEndTime]_vars

\* C3: the boundary on which answerCounter reaches 30 arms the grace flag, makes
\* problem 30 eligible and leaves the session running with its clock; the queued
\* final end clears the clock and ends the session at that time; and a session
\* that ended with no answer for problem 30 ended exactly one period after the
\* boundary that armed the flag (the boundary that stamped record 29).
C3_ArmStep ==
  (SameSession /\ gameState.answerCounter < TOTAL_QUESTIONS
               /\ gameState'.answerCounter = TOTAL_QUESTIONS)
    => /\ AdvanceStep
       /\ finalEndPendingRef'
       /\ gameState'.canAnswerQuestionId = TOTAL_QUESTIONS
       /\ gameState'.isGameActive
       /\ gameState'.gameEndTime = None
       /\ intervals' # {}
       /\ timeRemaining' = QUESTION_DELAY

C3_FinalEndStep ==
  FinalEndStep
    => /\ ~finalEndPendingRef'
       /\ intervals' = {}
       /\ countdownRef' = 0
       /\ ~gameState'.isGameActive
       /\ gameState'.gameEndTime = Some(now)

C3_OnePeriodOfGrace ==
  (Finished /\ gameState.answerCounter = TOTAL_QUESTIONS
            /\ ~IsAnswered(gameState.userAnswers[TOTAL_QUESTIONS]))
    => /\ gameState.userAnswers[TOTAL_QUESTIONS - 1].answeredAt # None
       /\ gameState.gameEndTime[1] =
            gameState.userAnswers[TOTAL_QUESTIONS - 1].answeredAt[1] + QUESTION_DELAY

\* While a session runs with answerCounter 30, the flag is armed and the clock is
\* in phase with the boundary that armed it: the final end cannot come sooner or
\* later than one period after it.
C3_GraceInPhase ==
  (Running /\ gameState.answerCounter = TOTAL_QUESTIONS /\ tasks = <<>>)
    => /\ finalEndPendingRef
       /\ intervals # {}
       /\ now - lastTickRef = QUESTION_DELAY - timeRemaining

C3_GraceThenTimeout ==
  /\ [][C3_ArmStep /\ C3_FinalEndStep]_vars
  /\ [](C3_OnePeriodOfGrace /\ C3_GraceInPhase)

C3_Witness ==
  /\ Finished
  /\ gameState.answerCounter = TOTAL_QUESTIONS
  /\ ~IsAnswered(gameState.userAnswers[TOTAL_QUESTIONS])
  /\ intervals = {}

\* C4: a game that was just started is fresh (counters and score 0, nothing
\* eligible, no end time, 30 open records), the grace flag is not armed and no
\* clock is registered; and no session is Finished before its answerCounter
\* reached 30.
C4_FreshGame ==
  (Running /\ gameState.questionCounter = 0)
    => /\ gameState.answerCounter = 0
       /\ gameState.score = 0
       /\ gameState.canAnswerQuestionId = 0
       /\ gameState.gameEndTime = None
       /\ Len(gameState.userAnswers) = TOTAL_QUESTIONS
       /\ \A i \in DOMAIN gameState.userAnswers : IsOpen(gameState.userAnswers[i])
       /\ ~finalEndPendingRef
       /\ intervals = {}

C4_NoEarlyFinish == Finished => gameState.answerCounter = TOTAL_QUESTIONS

C4_RestartIsFresh == C4_FreshGame /\ C4_NoEarlyFinish

\* C5: when no session exists (start screen), the clock is not registered and the
\* cleared state stays cleared: not running, no end time, counters 0.
C5_BackHomeStopsClock ==
  ~Started => (intervals = {} /\ gameState = EmptyGameState)

\* C6: within a session, a record that is resolved (answered or marked processed)
\* keeps all its fields in every later step.
C6_ResolvedRecordsFrozen ==
  [][SameSession
       => \A i \in DOMAIN gameState.userAnswers :
            ~IsOpen(gameState.userAnswers[i])
              => gameState'.userAnswers[i] = gameState.userAnswers[i]]_vars

\* C6 (the boundary's part of it): a boundary transition leaves every record that
\* holds a submitted answer untouched.
C6_BoundaryKeepsAnswered ==
  [][(AdvanceStep /\ SameSession)
       => \A i \in DOMAIN gameState.userAnswers :
            IsAnswered(gameState.userAnswers[i])
              => gameState'.userAnswers[i] = gameState.userAnswers[i]]_vars

\* C7 (as claimed): when a problem is eligible its record is open, except while
\* problem 30 is eligible with the grace flag armed.
C7_EligibleIsOpen ==
  (Started /\ gameState.canAnswerQuestionId # 0)
    => \/ finalEndPendingRef /\ gameState.canAnswerQuestionId = TOTAL_QUESTIONS
       \/ IsOpen(gameState.userAnswers[gameState.canAnswerQuestionId])

\* C7 (amended): when a problem is eligible its record is open or holds a submitted
\* answer (it was never marked processed without an answer), except while problem
\* 30 is eligible with the grace flag armed.
C7_EligibleNotSkipped ==
  (Started /\ gameState.canAnswerQuestionId # 0)
    => \/ finalEndPendingRef /\ gameState.canAnswerQuestionId = TOTAL_QUESTIONS
       \/ ~IsSkipped(gameState.userAnswers[gameState.canAnswerQuestionId])

C7_Witness ==
  /\ Running
  /\ gameState.canAnswerQuestionId \in 1..(TOTAL_QUESTIONS - 1)
  /\ IsAnswered(gameState.userAnswers[gameState.canAnswerQuestionId])
  /\ \E i \in DOMAIN gameState.userAnswers : IsSkipped(gameState.userAnswers[i])

\* C8: nothing is eligible before the sixth problem is revealed; the step that
\* reveals the sixth problem makes problem 1 eligible; the eligible id changes only
\* on a boundary transition and only to its successor; every boundary transition
\* of a running session with an eligible id below 30 moves it; at 30 it stays.
C8_ClosedBeforeSixth ==
  (Started /\ gameState.questionCounter < FIRST_ANSWER_AT)
    => gameState.canAnswerQuestionId = 0

C8_OpensAtSixth ==
  (SameSession /\ gameState.questionCounter < FIRST_ANSWER_AT
               /\ gameState'.questionCounter >= FIRST_ANSWER_AT)
    => /\ gameState'.questionCounter = FIRST_ANSWER_AT
       /\ gameState.canAnswerQuestionId = 0
       /\ gameState'.canAnswerQuestionId = 1

C8_StrictOrder ==
  (SameSession /\ gameState'.canAnswerQuestionId # gameState.canAnswerQuestionId)
    => /\ AdvanceStep
       /\ gameState'.canAnswerQuestionId = gameState.canAnswerQuestionId + 1

C8_OnePerBoundary ==
  (AdvanceStep /\ Running /\ gameState.canAnswerQuestionId \in 1..(TOTAL_QUESTIONS - 1))
    => gameState'.canAnswerQuestionId = gameState.canAnswerQuestionId + 1

C8_EligibilityOrder ==
  /\ []C8_ClosedBeforeSixth
  /\ [][C8_OpensAtSixth /\ C8_StrictOrder /\ C8_OnePerBoundary]_vars

C8_Witness ==
  /\ Running
  /\ gameState.canAnswerQuestionId = TOTAL_QUESTIONS
  /\ \A i \in 1..(TOTAL_QUESTIONS - 1) : ~IsOpen(gameState.userAnswers[i])

\* C9: the answer counter never exceeds the reveal counter.
C9_AnswerNotAheadOfReveal == gameState.answerCounter <= gameState.questionCounter

C9_Witness ==
  /\ Running
  /\ gameState.answerCounter = TOTAL_QUESTIONS - 1
  /\ gameState.questionCounter = TOTAL_QUESTIONS
  /\ answers > 0

\* C10: between two states of a running session neither counter decreases, and
\* while the session runs neither counter exceeds 30.
C10_CountersStep ==
  (SameSession /\ Running /\ gameState'.isGameActive)
    => /\ gameState'.questionCounter >= gameState.questionCounter
       /\ gameState'.answerCounter >= gameState.answerCounter

C10_CountersBounded ==
  Running => /\ gameState.questionCounter <= TOTAL_QUESTIONS
             /\ gameState.answerCounter <= TOTAL_QUESTIONS

C10_CountersMonotone == [][C10_CountersStep]_vars /\ []C10_CountersBounded

C10_Witness ==
  /\ Running
  /\ gameState.questionCounter = TOTAL_QUESTIONS
  /\ gameState.answerCounter = TOTAL_QUESTIONS
  /\ timeRemaining = TICK_MS


\* C11: a boundary whose updater is invoked twice is processed once. The tick that
\* ends a period queues exactly one deferred callback and stamps lastTickRef, the
\* queue never holds two callbacks, at most one interval is registered, two
\* processed boundaries are at least one period apart, and one boundary
\* transition moves each counter by at most 1.
TickStep == now' = now + TICK_MS /\ tasks = <<>> /\ intervals # {}

C11_BoundaryQueuesOne ==
  (TickStep /\ timeRemaining <= TICK_MS)
    => /\ Len(tasks') = 1
       /\ lastTickRef' = now'
       /\ timeRemaining' = QUESTION_DELAY
       /\ tasks' = IF finalEndPendingRef THEN <<"finalEnd">> ELSE <<"advance">>
       /\ ~finalEndPendingRef'
       /\ lastTickRef # 0 => now' - lastTickRef >= QUESTION_DELAY

C11_OffBoundaryQueuesNone ==
  (TickStep /\ timeRemaining > TICK_MS)
    => tasks' = <<>> /\ lastTickRef' = lastTickRef /\ timeRemaining' = timeRemaining - TICK_MS

C11_AtMostOnePerBoundary ==
  (AdvanceStep /\ SameSession)
    => /\ gameState'.questionCounter - gameState.questionCounter \in {0, 1}
       /\ gameState'.answerCounter - gameState.answerCounter \in {0, 1}

C11_OneClock == Len(tasks) <= 1 /\ Cardinality(intervals) <= 1

C11_ProcessedOnce ==
  /\ [][C11_BoundaryQueuesOne /\ C11_OffBoundaryQueuesNone /\ C11_AtMostOnePerBoundary]_vars
  /\ []C11_OneClock

C11_Witness ==
  /\ tasks = <<"finalEnd">>
  /\ lastTickRef = now
  /\ timeRemaining = QUESTION_DELAY
  /\ ~finalEndPendingRef
  /\ Running


\* C12: an accepted submission for problem id stores the parsed value in record id
\* with isCorrect = (value = correctAnswer of problem id) and adds 1 to the score
\* exactly when it is correct; no other step of a session changes the score or an
\* isCorrect field (a problem that expires unanswered scores nothing); and the
\* score is the number of records marked correct.
AcceptedStep == answers' = answers + 1

CorrectRecords(g) ==
  {i \in DOMAIN g.userAnswers : g.userAnswers[i].isCorrect = Some(TRUE)}

C12_SubmissionScores ==
  AcceptedStep
    => LET id == rendered.canAnswerQuestionId
           a == gameState'.userAnswers[id]
       IN /\ id \in DOMAIN gameState.questions
          /\ IsAnswered(a)
          /\ a.isCorrect = Some(a.userAnswer[1] = gameState.questions[id].correctAnswer)
          /\ gameState'.score = gameState.score + (IF a.isCorrect[1] THEN 1 ELSE 0)

C12_OnlySubmissionScores ==
  (SameSession /\ ~AcceptedStep)
    => /\ gameState'.score = gameState.score
       /\ \A i \in DOMAIN gameState.userAnswers :
            /\ gameState'.userAnswers[i].isCorrect = gameState.userAnswers[i].isCorrect
            /\ gameState'.userAnswers[i].userAnswer = gameState.userAnswers[i].userAnswer

C12_ScoreCountsCorrect ==
  Started => gameState.score = Cardinality(CorrectRecords(gameState))

C12_ScoreByOne ==
  /\ [][C12_SubmissionScores /\ C12_OnlySubmissionScores]_vars
  /\ []C12_ScoreCountsCorrect

C12_Witness ==
  /\ Finished
  /\ gameState.score = 1
  /\ \E i \in DOMAIN gameState.userAnswers :
       /\ gameState.userAnswers[i].isCorrect = Some(TRUE)
       /\ gameState.userAnswers[i].userAnswer = Some(gameState.questions[i].correctAnswer)
  /\ \E i \in DOMAIN gameState.userAnswers : IsSkipped(gameState.userAnswers[i])


\* C13: a rejected submission changes nothing but the feedback. A submission that
\* is answered with the invalid-input or the already-answered message leaves the
\* game state, the report, the refs and the timers as they were; the game state
\* changes only in a timer callback, in start / back-home, or in an accepted
\* submission; a submission is accepted only for an eligible problem whose
\* rendered record holds no answer and with a text that denotes a number; and the
\* already-answered rejection is never produced, since the form is hidden from an
\* accepted submission until the eligible problem changes.
RejectionStep == feedback' \in {"invalid", "already"} /\ feedback' # feedback

BackHomeStep == gameResults # None /\ gameResults' = None /\ games' = games

C13_RejectionKeepsState ==
  RejectionStep
    => UNCHANGED <<gameState, rendered, gameResults, justSubmitted, timeRemaining,
                   countdownRef, lastTickRef, finalEndPendingRef, tasks, startTimers,
                   intervals, now, games, answers>>

C13_OnlyAcceptedChanges ==
  (/\ tasks' = tasks /\ startTimers' = startTimers /\ games' = games
   /\ ~BackHomeStep /\ ~AcceptedStep)
    => gameState' = gameState

C13_AcceptedOnlyIfValid ==
  AcceptedStep
    => LET id == rendered.canAnswerQuestionId
       IN /\ id # 0
          /\ ~IsAnswered(rendered.userAnswers[id])
          /\ gameState'.userAnswers[id].userAnswer \in
               {Some(rendered.questions[id].correctAnswer),
                Some(rendered.questions[id].correctAnswer + 1)}

C13_NoDuplicateReachesHandler == feedback # "already"

C13_RejectedLeavesState ==
  /\ [][C13_RejectionKeepsState /\ C13_OnlyAcceptedChanges /\ C13_AcceptedOnlyIfValid]_vars
  /\ []C13_NoDuplicateReachesHandler

C13_Witness ==
  /\ feedback = "invalid"
  /\ Running
  /\ gameState.canAnswerQuestionId # 0
  /\ IsOpen(gameState.userAnswers[gameState.canAnswerQuestionId])
  /\ gameState.score = 0


\* C14: whenever a report exists, the session is not running, has an end time and
\* a non-empty problem list, and the report's score and correct count are the
\* session's score; a step that builds a report builds the projection of the
\* terminated state it renders; and once rendered, the report shown is the
\* projection of the current state.
C14_ReportOfTerminated ==
  gameResults # None
    => /\ ~gameState.isGameActive
       /\ gameState.gameEndTime # None
       /\ Len(gameState.questions) = TOTAL_QUESTIONS
       /\ gameResults[1].score = gameState.score
       /\ gameResults[1].correctAnswers = gameState.score
       /\ gameResults[1].totalQuestions = TOTAL_QUESTIONS
       /\ Len(gameResults[1].questionDetails) = TOTAL_QUESTIONS

C14_ReportIsProjection ==
  (gameResults # None /\ ~Dirty) => gameResults[1] = BuildResults(gameState)

C14_BuildStep ==
  (gameResults' # gameResults /\ gameResults' # None)
    => /\ ~rendered'.isGameActive
       /\ rendered'.gameEndTime # None
       /\ Len(rendered'.questions) > 0
       /\ gameResults' = Some(BuildResults(rendered'))

C14_ReportOnlyWhenTerminated ==
  /\ [](C14_ReportOfTerminated /\ C14_ReportIsProjection)
  /\ [][C14_BuildStep]_vars

C14_Witness ==
  /\ gameResults # None
  /\ Finished
  /\ gameResults[1].score = 1
  /\ gameResults[1].totalTime > QUESTION_DELAY * TOTAL_QUESTIONS


\* C15: after any sequence of adds, readLeaderboard returns a list sorted by score
\* descending and, among equal scores, totalTime ascending; it has
\* min(n, 100) entries, each of them an entry that was added, and no entry left
\* out ranks before an entry it holds.
SortedByScoreThenTime(list) ==
  \A i, j \in DOMAIN list :
     i < j => \/ list[i].score > list[j].score
              \/ list[i].score = list[j].score /\ list[i].totalTime <= list[j].totalTime

Ranks(a, b) == a.score > b.score \/ (a.score = b.score /\ a.totalTime < b.totalTime)

C15_SortedCappedBest ==
  LET list == readLeaderboard(localStore)
      kept == {list[i] : i \in DOMAIN list}
      all == {added[i] : i \in DOMAIN added}
  IN /\ SortedByScoreThenTime(list)
     /\ Len(list) <= LEADERBOARD_CAP
     /\ Len(list) = (IF Len(added) < LEADERBOARD_CAP THEN Len(added) ELSE LEADERBOARD_CAP)
     /\ Cardinality(kept) = Len(list)
     /\ kept \subseteq all
     /\ \A x \in all \ kept : \A y \in kept : ~Ranks(x, y)

C15_Witness ==
  /\ Len(added) > LEADERBOARD_CAP
  /\ added[Len(added)] \in {readLeaderboard(localStore)[i] : i \in 1..LEADERBOARD_CAP}
  /\ added[Len(added)].score = 10 /\ added[Len(added)].totalTime = 15
  /\ \E i \in 1..(Len(added) - 1) : added[i].score = 10 /\ added[i].totalTime = 15


\* C16 (as claimed): after the same adds, the list readLeaderboard returns equals
\* the list GET /api/leaderboard returns, entry for entry and in the same order.
C16_BackendsIdentical == readLeaderboard(localStore) = getLeaderboard(dbFile)

\* C16 (amended): after the same adds, the two lists have the same length and
\* their entries agree, position by position, in name, score and totalTime;
\* createdAt is the caller's in the local list and the server's in the remote one.
Ranked(list) ==
  <<>> \o [i \in DOMAIN list |->
            [name |-> list[i].name, score |-> list[i].score,
             totalTime |-> list[i].totalTime]]

C16_BackendsAgreeButStamp ==
  Ranked(readLeaderboard(localStore)) = Ranked(getLeaderboard(dbFile))

C16_Witness ==
  /\ Len(added) > LEADERBOARD_CAP
  /\ Len(dbFile) > LEADERBOARD_CAP
  /\ Len(getLeaderboard(dbFile)) = LEADERBOARD_CAP
  /\ readLeaderboard(localStore) # getLeaderboard(dbFile)
  /\ \E i \in DOMAIN added : Len(added[i].name) = MAX_NAME


\* C17: every generated problem has both operands in 1..10 and an operator + or
\* -; its correctAnswer is num1 + num2 for +, and num1 - num2 with num1 >= num2
\* for -, so it is never negative; and its text shows the same operands.
C17_ProblemWellFormed ==
  generated # None
    => LET q == generated[1]
       IN /\ q.num1 \in 1..RANDOM_RANGE
          /\ q.num2 \in 1..RANDOM_RANGE
          /\ q.operator \in {"+", "-"}
          /\ q.operator = "+" => q.correctAnswer = q.num1 + q.num2
          /\ q.operator = "-" => (q.num1 >= q.num2 /\ q.correctAnswer = q.num1 - q.num2)
          /\ q.correctAnswer >= 0
          /\ q.questionText = <<q.num1, q.operator, q.num2>>
          /\ q.id \in 1..TOTAL_QUESTIONS

C17_Witness ==
  /\ generated # None
  /\ generated[1].operator = "-"
  /\ generated[1].num1 = RANDOM_RANGE
  /\ generated[1].num2 = 1
  /\ generated[1].correctAnswer = RANDOM_RANGE - 1


\* C18: a submission and a boundary transition do not interleave. An accepted
\* submission records its answer for the problem that is eligible in the state
\* its update is applied to, and that record is still open there; and a boundary
\* transition marks only records that are still open, so that no record is
\* resolved by both.
C18_SubmissionForEligible ==
  AcceptedStep
    => /\ rendered.canAnswerQuestionId = gameState.canAnswerQuestionId
       /\ IsOpen(gameState.userAnswers[rendered.canAnswerQuestionId])

C18_BoundaryResolvesOpen ==
  (AdvanceStep /\ SameSession)
    => \A i \in DOMAIN gameState.userAnswers :
         gameState'.userAnswers[i] # gameState.userAnswers[i]
           => IsOpen(gameState.userAnswers[i])

C18_StaleSubmission == [][C18_SubmissionForEligible]_vars

C18_DoubleResolution == [][C18_BoundaryResolvesOpen]_vars

C18_TransitionsAtomic ==
  [][C18_SubmissionForEligible /\ C18_BoundaryResolvesOpen]_vars


\* C19 (as claimed): in every running state with answerCounter > 0, the reveal
\* counter is 5 ahead of the answer counter.
C19_ConstantLag ==
  (Running /\ gameState.answerCounter > 0)
    => gameState.questionCounter - gameState.answerCounter = FIRST_ANSWER_AT - 1

\* C19 (amended): in every running state with answerCounter > 0, the reveal
\* counter is 5 ahead of the answer counter until all 30 problems are revealed,
\* and stays at 30 from then on while the answer counter goes on to 30.
C19_LagUntilAllRevealed ==
  (Running /\ gameState.answerCounter > 0)
    => gameState.questionCounter =
         (IF gameState.answerCounter + FIRST_ANSWER_AT - 1 < TOTAL_QUESTIONS
          THEN gameState.answerCounter + FIRST_ANSWER_AT - 1
          ELSE TOTAL_QUESTIONS)

C19_Witness ==
  /\ Running
  /\ gameState.questionCounter = TOTAL_QUESTIONS
  /\ gameState.answerCounter = TOTAL_QUESTIONS - 2
  /\ gameState.canAnswerQuestionId = TOTAL_QUESTIONS - 2


\* C20: every started session reaches Finished, whatever the user submits, and
\* it leaves Running only through the final end of the clock or through an
\* accepted submission for problem 30. (The model stops the clock at Horizon, so
\* the sessions meant are those started early enough to run their full length:
\* the start delay and 35 periods.)
Horizon == START_DELAY + MaxTicks * TICK_MS

SessionLength == START_DELAY + (TOTAL_QUESTIONS + FIRST_ANSWER_AT - 1) * QUESTION_DELAY

StartedInTime == Running /\ gameState.gameStartTime[1] + SessionLength <= Horizon

C20_EndStep ==
  (SameSession /\ Running /\ ~gameState'.isGameActive)
    => /\ gameState'.gameEndTime = Some(now)
       /\ \/ FinalEndStep
          \/ AcceptedStep /\ rendered.canAnswerQuestionId = TOTAL_QUESTIONS

C20_EventuallyFinished ==
  /\ StartedInTime ~> Finished
  /\ [][C20_EndStep]_vars

C20_Witness ==
  /\ Finished
  /\ games = MaxGames
  /\ gameState.answerCounter = TOTAL_QUESTIONS
  /\ IsAnswered(gameState.userAnswers[TOTAL_QUESTIONS])
  /\ gameState.gameStartTime[1] + SessionLength > gameState.gameEndTime[1]


\* C21: while the clock runs, a tick with more than one tick of time left takes
\* 100 ms off the remaining time and emits nothing; the remaining time is always
\* a multiple of 100 in 100..3000; the tick that would bring it to zero resets it
\* to 3000 and emits one boundary event; and the boundary events are exactly 30
\* ticks apart: the time since the last boundary (since the clock was started, one
\* start delay after the game, before the first boundary) is the part of the
\* period that has elapsed.
C21_TickDecrements ==
  (TickStep /\ timeRemaining > TICK_MS)
    => timeRemaining' = timeRemaining - TICK_MS /\ tasks' = <<>>

C21_BoundaryResets ==
  (TickStep /\ timeRemaining <= TICK_MS)
    => timeRemaining' = QUESTION_DELAY /\ Len(tasks') = 1

C21_EmittedOnlyAtZero ==
  (Len(tasks') > Len(tasks)) => (TickStep /\ timeRemaining = TICK_MS)

C21_InRange ==
  /\ timeRemaining \in TICK_MS..QUESTION_DELAY
  /\ timeRemaining % TICK_MS = 0

PeriodStart ==
  IF lastTickRef # 0 THEN lastTickRef
  ELSE IF gameState.gameStartTime # None THEN gameState.gameStartTime[1] + START_DELAY
  ELSE now

C21_InPhase ==
  (intervals # {} /\ tasks = <<>>)
    => now - PeriodStart = QUESTION_DELAY - timeRemaining

C21_TickParts ==
  /\ [][C21_TickDecrements /\ C21_BoundaryResets /\ C21_EmittedOnlyAtZero]_vars
  /\ []C21_InRange

C21_BoundaryEvery30Ticks == C21_TickParts /\ []C21_InPhase


\* C22: for each slot the loop draws again exactly while the draw repeats the
\* text or the answer of the previous slot's problem, up to 20 retries after the
\* initial draw (21 draws); it terminates (the draws of a slot are bounded and
\* the loop is left once the bound is met); and a problem that repeats its
\* predecessor is accepted only after 20 failed retries.
RetryStep ==
  slotLoop.q # None /\ slotLoop'.attempts = slotLoop.attempts + 1

PushStep ==
  Len(slotLoop'.initialQuestions) = Len(slotLoop.initialQuestions) + 1

Retries == slotLoop.attempts - 1

C22_RetryOnlyOnRepeat ==
  RetryStep => RepeatsLast(slotLoop.q[1], slotLoop.initialQuestions)

C22_RetriesBounded ==
  /\ slotLoop.attempts <= MAX_ATTEMPTS + 1
  /\ slotLoop.attempts >= MAX_ATTEMPTS + 1 => ~InLoop

C22_RepeatOnlyAfter20Retries ==
  (PushStep /\ RepeatsLast(slotLoop.q[1], slotLoop.initialQuestions))
    => Retries = MAX_ATTEMPTS

C22_LoopParts == [][C22_RetryOnlyOnRepeat]_vars /\ []C22_RetriesBounded

C22_RepeatAccepted == [][C22_RepeatOnlyAfter20Retries]_vars

C22_RetryTwentyTimes == C22_LoopParts /\ C22_RepeatAccepted

\* what the loop does: a repeat is accepted at the 20th draw, after 19 retries
C22_RepeatAcceptedAt20thDraw ==
  [][(PushStep /\ RepeatsLast(slotLoop.q[1], slotLoop.initialQuestions))
       => slotLoop.attempts = MAX_ATTEMPTS]_vars


\* C23: in every state of a started session the eligible id is none with
\* answerCounter 0, or it equals answerCounter, and it is at most the reveal
\* counter; this holds of the rendered state as well, and the answerCounter the
\* submit handler closed over is the rendered one although answerCounter is not
\* in its dependency list; so an accepted submission for problem 30 reads
\* answerCounter 30 and ends the session at once.
EligibleIsAnswerCounter(g) ==
  /\ g.canAnswerQuestionId = 0 => g.answerCounter = 0
  /\ g.canAnswerQuestionId # 0 => g.canAnswerQuestionId = g.answerCounter
  /\ g.canAnswerQuestionId <= g.questionCounter
  /\ g.canAnswerQuestionId = TOTAL_QUESTIONS => g.answerCounter = TOTAL_QUESTIONS

C23_EligibleTracksCounter ==
  /\ Started => EligibleIsAnswerCounter(gameState)
  /\ Len(rendered.questions) > 0 => EligibleIsAnswerCounter(rendered)

C23_HandlerSeesCounter == closureAnswerCounter = rendered.answerCounter

C23_LastSubmissionEnds ==
  (AcceptedStep /\ rendered.canAnswerQuestionId = TOTAL_QUESTIONS)
    => /\ Closure.answerCounter = TOTAL_QUESTIONS
       /\ ~gameState'.isGameActive
       /\ gameState'.gameEndTime = Some(now)
       /\ gameResults' # None

C23_EligibleEqualsCounter ==
  /\ [](C23_EligibleTracksCounter /\ C23_HandlerSeesCounter)
  /\ [][C23_LastSubmissionEnds]_vars

C23_Witness ==
  /\ Finished
  /\ IsAnswered(gameState.userAnswers[TOTAL_QUESTIONS])
  /\ gameState.gameEndTime = gameState.userAnswers[TOTAL_QUESTIONS].answeredAt
  /\ gameState.canAnswerQuestionId = TOTAL_QUESTIONS
  /\ closureAnswerCounter = TOTAL_QUESTIONS
  /\ gameResults # None


\* C24: in every state the score is the number of records marked correct and
\* score <= answerCounter <= 30; every record marked correct belongs to a problem
\* that was eligible; a step raises the score by at most 1, and only while it
\* marks one more record correct; and a submission is accepted only for a record
\* that holds no answer, so that no problem is scored twice.
C24_ScoreIsCorrectCount ==
  Started => gameState.score = Cardinality(CorrectRecords(gameState))

C24_ScoreBounded ==
  /\ gameState.score <= gameState.answerCounter
  /\ gameState.answerCounter <= TOTAL_QUESTIONS
  /\ \A i \in CorrectRecords(gameState) : i <= gameState.answerCounter

C24_PointStep ==
  (SameSession /\ gameState'.score # gameState.score)
    => /\ gameState'.score = gameState.score + 1
       /\ AcceptedStep
       /\ CorrectRecords(gameState') =
            CorrectRecords(gameState) \cup {rendered.canAnswerQuestionId}
       /\ rendered.canAnswerQuestionId \notin CorrectRecords(gameState)

C24_NoSecondAnswer ==
  AcceptedStep => ~IsAnswered(gameState.userAnswers[rendered.canAnswerQuestionId])

C24_OnePointPerProblem ==
  /\ [](C24_ScoreIsCorrectCount /\ C24_ScoreBounded)
  /\ [][C24_PointStep /\ C24_NoSecondAnswer]_vars

C24_Witness ==
  /\ Finished
  /\ answers = MaxScored
  /\ gameState.score = 2
  /\ gameState.userAnswers[1].isCorrect = Some(TRUE)
  /\ gameState.userAnswers[2].isCorrect = Some(FALSE)
  /\ gameState.userAnswers[TOTAL_QUESTIONS].isCorrect = Some(TRUE)


\* C25: at most one interval is registered at any time, and it is the one
\* countdownRef holds; an interval is registered only when none is; and a start
\* of the clock that finds one registered (a restart while the clock of the last
\* game still runs) registers no second one.
StartDelayStep == startTimers' # startTimers /\ games' = games

C25_OneInterval ==
  /\ Cardinality(intervals) <= 1
  /\ intervals = (IF countdownRef = 0 THEN {} ELSE {countdownRef})

C25_RegisteredWhenNone ==
  (intervals' # intervals /\ intervals' # {}) => (intervals = {} /\ StartDelayStep)

C25_StartKeepsClock ==
  (StartDelayStep /\ intervals # {})
    => intervals' = intervals /\ countdownRef' = countdownRef

C25_AtMostOneClock ==
  /\ []C25_OneInterval
  /\ [][C25_RegisteredWhenNone /\ C25_StartKeepsClock]_vars

C25_Witness ==
  /\ games = MaxGames
  /\ gameState.questionCounter = 1
  /\ startTimers = {}
  /\ Cardinality(intervals) = 1
  /\ lastTickRef # 0
  /\ timeRemaining = QUESTION_DELAY


\* C26: an accepted submission leaves the reveal counter, the answer counter, the
\* eligible id, the problem list and every record but the targeted one as they
\* were; a boundary transition (the queued advance or the queued final end)
\* leaves the score, the problem list and the userAnswer and isCorrect of every
\* record as they were; and the boundary on which answerCounter reaches 30 leaves
\* the reveal counter as it was.
C26_SubmissionFrame ==
  AcceptedStep
    => /\ gameState'.questionCounter = gameState.questionCounter
       /\ gameState'.answerCounter = gameState.answerCounter
       /\ gameState'.canAnswerQuestionId = gameState.canAnswerQuestionId
       /\ gameState'.questions = gameState.questions
       /\ DOMAIN gameState'.userAnswers = DOMAIN gameState.userAnswers
       /\ \A i \in DOMAIN gameState.userAnswers :
            gameState.userAnswers[i].questionId # rendered.canAnswerQuestionId
              => gameState'.userAnswers[i] = gameState.userAnswers[i]
       /\ gameState'.userAnswers[rendered.canAnswerQuestionId]
            # gameState.userAnswers[rendered.canAnswerQuestionId]

C26_BoundaryFrame ==
  (AdvanceStep \/ FinalEndStep)
    => /\ gameState'.score = gameState.score
       /\ gameState'.questions = gameState.questions
       /\ DOMAIN gameState'.userAnswers = DOMAIN gameState.userAnswers
       /\ \A i \in DOMAIN gameState.userAnswers :
            /\ gameState'.userAnswers[i].userAnswer = gameState.userAnswers[i].userAnswer
            /\ gameState'.userAnswers[i].isCorrect = gameState.userAnswers[i].isCorrect
            /\ gameState'.userAnswers[i].questionId = gameState.userAnswers[i].questionId

C26_ReachingThirtyKeepsReveal ==
  (AdvanceStep /\ gameState.answerCounter < TOTAL_QUESTIONS
               /\ gameState'.answerCounter = TOTAL_QUESTIONS)
    => gameState'.questionCounter = gameState.questionCounter

C26_FrameConditions ==
  [][C26_SubmissionFrame /\ C26_BoundaryFrame /\ C26_ReachingThirtyKeepsReveal]_vars

C26_Witness ==
  /\ Running
  /\ gameState.answerCounter = TOTAL_QUESTIONS
  /\ gameState.questionCounter = TOTAL_QUESTIONS
  /\ finalEndPendingRef
  /\ gameState.userAnswers[1].isCorrect = Some(TRUE)
  /\ gameState.userAnswers[2].isCorrect = Some(FALSE)
  /\ gameState.userAnswers[2].answeredAt # None
  /\ gameState.score = 1

====
